---- MODULE Spec2Model ----
(***************************************************************************)
(* Address book service (src/main.py): five FastAPI routes over one        *)
(* SQLite table "addresses", each route working through its own            *)
(* SQLAlchemy session.                                                     *)
(*                                                                         *)
(* Spec      sequential requests, one handler per step                     *)
(* SpecList  a table filled with many rows, and the List route             *)
(* SpecConc  two workers running update_address step by step               *)
(***************************************************************************)
EXTENDS Integers, Sequences, FiniteSets, TLC

VARIABLES
    addresses,  \* committed rows of the table "addresses"
    db,         \* the session of the handler that ran last, as it left it
    req,        \* the last request
    resp,       \* the response to it
    prev,       \* the request before that one: its route, id and status
    assigned,   \* the ids the table handed out to create_address, in order
    pc,         \* SpecConc: where each worker's update_address stands
    wreq,       \* SpecConc: each worker's request
    loaded,     \* SpecConc: the row each worker's session loaded
    wresp,      \* SpecConc: each worker's response
    overlap     \* SpecConc: the workers' current requests ran concurrently

vars == <<addresses, db, req, resp, prev, assigned, pc, wreq, loaded, wresp, overlap>>
seqVars == <<addresses, db, req, resp, prev, assigned>>
concVars == <<pc, wreq, loaded, wresp, overlap>>

----------------------------------------------------------------------------
(* Bounds *)

MaxRows == 2        \* rows in the table under Spec
MaxListRows == 15   \* rows in the table under SpecList
DefaultSkip == 0
DefaultLimit == 10

Coords == {40, 41}
Texts == {"a", "b"}
Workers == {1, 2}

----------------------------------------------------------------------------
(* Schema *)

AddressCreateFields ==
    {"latitude", "longitude", "name", "address", "city", "state", "zip_code"}

AddressFields == {"id"} \cup AddressCreateFields

\* A valid request body: two floats and five strings.
Input(c, t) ==
    [latitude |-> c, longitude |-> 0 - c, name |-> t, address |-> t,
     city |-> t, state |-> t, zip_code |-> t]

Inputs == {Input(c, t) : c \in Coords, t \in Texts}

SampleInput == Input(40, "a")

\* Address(**address.dict()): a transient object, id not yet set.
NewAddressSwapped(input) ==
    [f \in AddressCreateFields |->
        CASE f = "latitude" -> input.longitude
          [] f = "longitude" -> input.latitude
          [] OTHER -> input[f]]
NewAddress(input) == [f \in AddressCreateFields |-> input[f]]

\* The response model keeps the eight declared fields of the object.
AddressResponse(row) ==
    [id |-> row.id, latitude |-> row.latitude, longitude |-> row.longitude,
     name |-> row.name, address |-> row.address, city |-> row.city,
     state |-> row.state, zip_code |-> row.zip_code]

NotFound == [status |-> 404, detail |-> "Address not found"]

----------------------------------------------------------------------------
(* The table *)

RowIds(tbl) == {r.id : r \in tbl}

HasId(tbl, id) == id \in RowIds(tbl)

MaxId(tbl) == CHOOSE m \in RowIds(tbl) : \A i \in RowIds(tbl) : i <= m

\* db.query(Address).filter(Address.id == address_id).first()
QueryFirstUnfiltered(tbl, id) == CHOOSE r \in tbl : \A q \in tbl : r.id <= q.id
QueryFirst(tbl, id) == CHOOSE r \in tbl : r.id = id

\* INTEGER PRIMARY KEY without AUTOINCREMENT: one more than the largest rowid.
NextRowIdReuseMax(tbl) == IF tbl = {} THEN 1 ELSE MaxId(tbl)
NextRowId(tbl) == IF tbl = {} THEN 1 ELSE MaxId(tbl) + 1

\* INSERT of a transient object and COMMIT.
Insert(tbl, obj) ==
    tbl \cup {[f \in AddressFields |->
                 IF f = "id" THEN NextRowId(tbl) ELSE obj[f]]}

\* The unit of work writes the columns whose value differs from the loaded one.
Changed(row, obj) == {f \in AddressCreateFields : obj[f] # row[f]}

\* setattr over address.dict().items(): every declared field is set.
SetAttrs(row, input) ==
    [f \in AddressFields |->
        IF f \in AddressCreateFields THEN input[f] ELSE row[f]]

\* UPDATE addresses SET <changed columns> WHERE id = row.id, and COMMIT.
FlushUpdateNoWhere(tbl, row, obj) ==
    {[f \in AddressFields |->
        IF f \in Changed(row, obj) THEN obj[f] ELSE r[f]] : r \in tbl}
FlushUpdate(tbl, row, obj) ==
    {IF r.id = row.id
        THEN [f \in AddressFields |->
                IF f \in Changed(row, obj) THEN obj[f] ELSE r[f]]
        ELSE r : r \in tbl}

\* Rows in rowid order.
RECURSIVE ScanNewestFirst(_)
ScanNewestFirst(tbl) ==
    IF tbl = {} THEN <<>>
    ELSE LET first == CHOOSE r \in tbl : \A q \in tbl : r.id >= q.id
         IN <<first>> \o ScanNewestFirst(tbl \ {first})
RECURSIVE Scan(_)
Scan(tbl) ==
    IF tbl = {} THEN <<>>
    ELSE LET first == CHOOSE r \in tbl : \A q \in tbl : r.id <= q.id
         IN <<first>> \o Scan(tbl \ {first})

Min(a, b) == IF a < b THEN a ELSE b
Max(a, b) == IF a > b THEN a ELSE b

\* LIMIT ? OFFSET ?: a negative OFFSET counts as 0, a negative LIMIT as none.
OffsetLimitDefaults(rows, skip, limit) ==
    LET off == IF skip < 0 THEN DefaultSkip ELSE skip
        lim == IF limit < 0 THEN DefaultLimit ELSE limit
    IN SubSeq(rows, off + 1, Min(Len(rows), off + lim))
OffsetLimit(rows, skip, limit) ==
    LET off == IF skip < 0 THEN 0 ELSE skip
        last == IF limit < 0 THEN Len(rows) ELSE Min(Len(rows), off + limit)
    IN SubSeq(rows, off + 1, last)

Serialize(rows) == [i \in 1..Len(rows) |-> AddressResponse(rows[i])]

----------------------------------------------------------------------------
(* Sessions *)

NoSession == [open |-> FALSE, deleted |-> {}]
Closed == [open |-> FALSE, deleted |-> {}]
\* db.delete(obj) with no commit and no close after it.
PendingDelete(id) == [open |-> TRUE, deleted |-> {id}]

NoRequest == [op |-> "none"]
NoResponse == [status |-> 0]
Idle == [id |-> 0, input |-> SampleInput]
NoRow == [id |-> 0]

Ok(body) == [status |-> 200, body |-> body]

\* The id a request was about: the one assigned, or the one in the path.
Subject(request, response) ==
    CASE request.op = "create" -> response.body.id
      [] request.op \in {"get", "update", "delete"} -> request.id
      [] OTHER -> 0

\* What every handler of the sequential specifications leaves behind.
Served(request, response, session) ==
    /\ req' = request
    /\ resp' = response
    /\ db' = session
    /\ prev' = [op |-> req.op, id |-> Subject(req, resp), status |-> resp.status]
    /\ UNCHANGED concVars

----------------------------------------------------------------------------
(* Handlers, one request at a time *)

\* POST /addresses/
create_address(input) ==
    LET id == NextRowId(addresses)
        tbl == Insert(addresses, NewAddress(input))
        db_address == QueryFirst(tbl, id)
    IN /\ addresses' = tbl
       /\ assigned' = Append(assigned, id)
       /\ Served([op |-> "create", input |-> input],
                 Ok(AddressResponse(db_address)), Closed)

\* GET /addresses/?skip=&limit=
read_addresses(skip, limit) ==
    /\ Served([op |-> "list", skip |-> skip, limit |-> limit],
              Ok(Serialize(OffsetLimit(Scan(addresses), skip, limit))), Closed)
    /\ UNCHANGED <<addresses, assigned>>

\* GET /addresses/{address_id}
read_address(address_id) ==
    /\ Served([op |-> "get", id |-> address_id],
              IF HasId(addresses, address_id)
                 THEN Ok(AddressResponse(QueryFirst(addresses, address_id)))
                 ELSE NotFound,
              Closed)
    /\ UNCHANGED <<addresses, assigned>>

\* lines 162-164: no such row, so close the session and answer 404
update_missing_unchecked(request) ==
    /\ Served(request, [status |-> 500], [open |-> TRUE, deleted |-> {}])
    /\ UNCHANGED <<addresses, assigned>>
update_missing(request) ==
    /\ Served(request, NotFound, Closed)
    /\ UNCHANGED <<addresses, assigned>>

\* PUT /addresses/{address_id}
update_address(address_id, input) ==
    LET request == [op |-> "update", id |-> address_id, input |-> input]
    IN IF ~HasId(addresses, address_id)
          THEN update_missing(request)
          ELSE LET db_address == QueryFirst(addresses, address_id)
                   tbl == FlushUpdate(addresses, db_address,
                                      SetAttrs(db_address, input))
               IN /\ addresses' = tbl
                  /\ Served(request,
                            Ok(AddressResponse(QueryFirst(tbl, address_id))),
                            Closed)
                  /\ UNCHANGED assigned

\* DELETE /addresses/{address_id}: the handler ends after db.delete(...).
delete_address(address_id) ==
    /\ Served([op |-> "delete", id |-> address_id],
              IF HasId(addresses, address_id) THEN Ok("null") ELSE NotFound,
              IF HasId(addresses, address_id)
                 THEN PendingDelete(address_id) ELSE Closed)
    /\ UNCHANGED <<addresses, assigned>>

----------------------------------------------------------------------------
(* update_address, one statement group at a time, on a worker's own session *)

Other(w) == CHOOSE o \in Workers : o # w

\* lines 156-164: open the session, load the row, 404 if there is none
update_query(w, address_id, input) ==
    /\ pc[w] = "idle"
    /\ wreq' = [wreq EXCEPT ![w] = [id |-> address_id, input |-> input]]
    /\ overlap' = (pc[Other(w)] # "idle" /\ wreq[Other(w)].id = address_id)
    /\ IF HasId(addresses, address_id)
          THEN /\ loaded' = [loaded EXCEPT ![w] = QueryFirst(addresses, address_id)]
               /\ pc' = [pc EXCEPT ![w] = "queried"]
               /\ wresp' = [wresp EXCEPT ![w] = NoResponse]
          ELSE /\ wresp' = [wresp EXCEPT ![w] = NotFound]
               /\ UNCHANGED <<loaded, pc>>
    /\ UNCHANGED seqVars

\* lines 167-171: set the attributes, flush and commit
update_commit(w) ==
    /\ pc[w] = "queried"
    /\ addresses' = FlushUpdate(addresses, loaded[w],
                                SetAttrs(loaded[w], wreq[w].input))
    /\ pc' = [pc EXCEPT ![w] = "committed"]
    /\ loaded' = [loaded EXCEPT ![w] = NoRow]
    /\ UNCHANGED <<db, req, resp, prev, assigned, wreq, wresp, overlap>>

\* lines 174-180: refresh from the table, close, return
update_return(w) ==
    /\ pc[w] = "committed"
    /\ wresp' = [wresp EXCEPT ![w] =
                    Ok(AddressResponse(QueryFirst(addresses, wreq[w].id)))]
    /\ pc' = [pc EXCEPT ![w] = "idle"]
    /\ UNCHANGED <<seqVars, wreq, loaded, overlap>>

----------------------------------------------------------------------------
(* Specifications *)

MaxConcRows == 1
Ids == 1..(MaxRows + 1)
ConcIds == 1..(MaxConcRows + 1)
Skips == {0, 1}
Limits == {1, DefaultLimit}
ListSkips == {-1, 0, 5, DefaultLimit}
ListLimits == {-1, 0, 5, DefaultLimit}

Init ==
    /\ addresses = {}
    /\ db = NoSession
    /\ req = NoRequest
    /\ resp = NoResponse
    /\ prev = [op |-> "none", id |-> 0, status |-> 0]
    /\ assigned = <<>>
    /\ pc = [w \in Workers |-> "idle"]
    /\ wreq = [w \in Workers |-> Idle]
    /\ loaded = [w \in Workers |-> NoRow]
    /\ wresp = [w \in Workers |-> NoResponse]
    /\ overlap = FALSE

Create == \E input \in Inputs :
    Cardinality(addresses) < MaxRows /\ create_address(input)
List == \E skip \in Skips, limit \in Limits : read_addresses(skip, limit)
Get == \E id \in Ids : read_address(id)
Update == \E id \in Ids, input \in Inputs : update_address(id, input)
Delete == \E id \in Ids : delete_address(id)

Next == Create \/ List \/ Get \/ Update \/ Delete

Spec == Init /\ [][Next]_vars

Fill == Cardinality(addresses) < MaxListRows /\ create_address(SampleInput)
Page == \E skip \in ListSkips, limit \in ListLimits : read_addresses(skip, limit)

NextList == Fill \/ Page

SpecList == Init /\ [][NextList]_vars

Populate == \E input \in Inputs :
    Cardinality(addresses) < MaxConcRows /\ create_address(input)
Query == \E w \in Workers, id \in ConcIds, input \in Inputs :
    update_query(w, id, input)
Commit == \E w \in Workers : update_commit(w)
Return == \E w \in Workers : update_return(w)

NextConc == Populate \/ Query \/ Commit \/ Return

SpecConc == Init /\ [][NextConc]_vars

----------------------------------------------------------------------------
(* Properties *)

\* The stored row with this id carries exactly these non-identifier fields.
Holds(tbl, id, input) ==
    \E r \in tbl : r.id = id /\ \A f \in AddressCreateFields : r[f] = input[f]

\* The response body is this id with exactly these non-identifier fields.
Carries(body, id, input) ==
    /\ DOMAIN body = AddressFields
    /\ body.id = id
    /\ \A f \in AddressCreateFields : body[f] = input[f]

\* C1: after Delete(id) has answered success, the record is gone: a Get(id)
\* that follows answers 404 and a List that follows does not contain it.
C1_DeleteRemoves ==
    (prev.op = "delete" /\ prev.status = 200) =>
        /\ (req.op = "get" /\ req.id = prev.id) => resp.status = 404
        /\ req.op = "list" =>
              \A i \in DOMAIN resp.body : resp.body[i].id # prev.id

\* C2: a Get of the id that the Create just before it returned answers 200
\* with that id and the seven fields of the Create's input.
C2_CreateThenGet ==
    [][(req.op = "create" /\ req'.op = "get" /\ req'.id = resp.body.id) =>
          /\ Carries(resp.body, resp.body.id, req.input)
          /\ resp'.status = 200
          /\ Carries(resp'.body, resp.body.id, req.input)]_vars

C2_Witness ==
    /\ prev.op = "create"
    /\ req.op = "get"
    /\ req.id = prev.id
    /\ resp.status = 200

\* C3: an Update of an existing id answers 200 with the new input and the id,
\* stores exactly the new input under that id, and leaves every other row as
\* it was; a Get of that id right after it returns the new input and the id.
C3_UpdateReplaces ==
    [][/\ (req'.op = "update" /\ HasId(addresses, req'.id)) =>
            /\ resp'.status = 200
            /\ Carries(resp'.body, req'.id, req'.input)
            /\ Holds(addresses', req'.id, req'.input)
            /\ RowIds(addresses') = RowIds(addresses)
            /\ \A r \in addresses : r.id # req'.id => r \in addresses'
       /\ (req.op = "update" /\ resp.status = 200
              /\ req'.op = "get" /\ req'.id = req.id) =>
            /\ resp'.status = 200
            /\ Carries(resp'.body, req.id, req.input)]_vars

C3_Witness ==
    /\ prev.op = "update"
    /\ prev.status = 200
    /\ req.op = "get"
    /\ req.id = prev.id
    /\ resp.status = 200
    /\ Cardinality(addresses) > 1
    /\ \E r \in addresses : r.id # req.id /\ r.name # resp.body.name

\* C4: whenever a handler has finished, the session it opened is closed.
C4_SessionClosed == ~db.open

\* C5: no two stored rows share an id, and no id is handed out by Create twice.
C5_IdsUniqueNeverReused ==
    /\ \A r, q \in addresses : r.id = q.id => r = q
    /\ \A i, j \in DOMAIN assigned : assigned[i] = assigned[j] => i = j

\* A Create right after a Delete of the highest id answered success.
C5_Witness ==
    /\ prev.op = "delete"
    /\ prev.status = 200
    /\ req.op = "create"
    /\ resp.body.id = prev.id + 1
    /\ Len(assigned) > 1

\* C6: an Update or a Delete of an id that is not stored answers 404 and
\* leaves the table as it was.
C6_MissingIdNotFound ==
    [][(req'.op \in {"update", "delete"} /\ ~HasId(addresses, req'.id)) =>
          /\ resp'.status = 404
          /\ resp'.detail = "Address not found"
          /\ addresses' = addresses]_vars

C6_Witness ==
    /\ prev.op = "update"
    /\ prev.status = 404
    /\ req.op = "delete"
    /\ resp.status = 404
    /\ addresses # {}

\* C7, as claimed: a List with a negative skip or a negative limit answers
\* what it would answer with skip = 0, limit = 10 in place of the negative one.
C7_NegativeFallsBackToDefaults ==
    (req.op = "list" /\ (req.skip < 0 \/ req.limit < 0)) =>
        resp.body = Serialize(OffsetLimitDefaults(Scan(addresses), req.skip, req.limit))

\* C7, amended: a negative skip counts as skip = 0; a negative limit puts no
\* upper bound on the answer, which then runs to the last stored record.
C7_NegativeSkipZeroNegativeLimitAll ==
    (req.op = "list" /\ (req.skip < 0 \/ req.limit < 0)) =>
        LET n == Cardinality(addresses)
            off == Max(req.skip, 0)
            len == IF req.limit < 0 THEN Max(0, n - off)
                   ELSE Min(req.limit, Max(0, n - off))
        IN /\ Len(resp.body) = len
           /\ \A i \in 1..len : resp.body[i] = AddressResponse(Scan(addresses)[off + i])

C7_Witness ==
    /\ req.op = "list"
    /\ req.limit < 0
    /\ req.skip < 0
    /\ Len(resp.body) > DefaultLimit

\* C8: for skip >= 0 and limit >= 0 a List answers min(limit, max(0, n - skip))
\* records, the ones at positions skip+1, skip+2, ... of the table in id
\* order, and leaves the table as it was.
C8_ListPage ==
    [][(req'.op = "list" /\ req'.skip >= 0 /\ req'.limit >= 0) =>
          LET n == Cardinality(addresses)
              len == Min(req'.limit, Max(0, n - req'.skip))
          IN /\ addresses' = addresses
             /\ resp'.status = 200
             /\ Len(resp'.body) = len
             /\ \A i \in 1..len :
                   /\ \E r \in addresses : \A f \in AddressFields : resp'.body[i][f] = r[f]
                   /\ Cardinality({r \in addresses : r.id < resp'.body[i].id})
                         = req'.skip + i - 1]_vars

\* Fifteen records: the page after the first ten holds the remaining five.
C8_Witness ==
    /\ Cardinality(addresses) = 15
    /\ prev.op = "list"
    /\ req.op = "list"
    /\ req.skip = 10
    /\ req.limit = 10
    /\ Len(resp.body) = 5
    /\ resp.body[1].id = 11
    /\ resp.body[5].id = 15

\* C9: a Get answers 200 with the stored row of that id when there is one and
\* 404 "Address not found" when there is none, and leaves the table as it was.
C9_GetFoundOrNotFound ==
    [][req'.op = "get" =>
          /\ addresses' = addresses
          /\ IF HasId(addresses, req'.id)
                THEN /\ resp'.status = 200
                     /\ DOMAIN resp'.body = AddressFields
                     /\ resp'.body.id = req'.id
                     /\ \E r \in addresses : \A f \in AddressFields : resp'.body[f] = r[f]
                ELSE /\ resp'.status = 404
                     /\ resp'.detail = "Address not found"]_vars

C9_Witness ==
    /\ prev.op = "get"
    /\ prev.status = 404
    /\ req.op = "get"
    /\ req.id = 2
    /\ resp.status = 200

\* Both workers have finished an Update of the same stored id, and the two
\* requests overlapped in time.
BothUpdated ==
    /\ overlap
    /\ \A w \in Workers : pc[w] = "idle" /\ wresp[w].status = 200
    /\ wreq[1].id = wreq[2].id

\* C10, as claimed: after two concurrent Updates of one id the stored record
\* carries the complete input of one of the two requests.
C10_LastWriteWins ==
    BothUpdated =>
        \E w \in Workers : Holds(addresses, wreq[w].id, wreq[w].input)

\* What two concurrent Updates of one id do guarantee: every field of the
\* stored record is that field of one of the two inputs.
C10_LastWriteWinsPerField ==
    BothUpdated =>
        \E r \in addresses :
            /\ r.id = wreq[1].id
            /\ \A f \in AddressCreateFields :
                  \E w \in Workers : r[f] = wreq[w].input[f]

\* The stored record combines fields of both inputs and equals neither.
C10_Witness ==
    /\ BothUpdated
    /\ \A w \in Workers : ~Holds(addresses, wreq[w].id, wreq[w].input)

====
